---- MODULE Spec2Model ----
(***************************************************************************)
(* The disk-caching variant of the symbol server (src/unnamed/part_001):   *)
(* respondWithCacheOrCall, the proxyRes hook with its two-write finalize   *)
(* barrier, and the in-memory expiry table diskCacheTTLs.                  *)
(*                                                                         *)
(* Time is in milliseconds, as Date.now().  Every asynchronous callback of *)
(* the source is one action; the synchronous part of a handler is one      *)
(* action as well.                                                         *)
(*                                                                         *)
(* Two smaller parts follow the disk cache: normalizeRequestPath as a      *)
(* function on strings of tokens, with the paths a request derives from    *)
(* its URL (SpecPath), and the missing-symbol cache of src/index.ts        *)
(* (SpecMiss).                                                             *)
(***************************************************************************)
EXTENDS Integers, Sequences, FiniteSets, TLC

\* ------------------------------------------------------------- bounds
\* Number of inbound requests of a behaviour.
MaxReqs == 3
\* Number of clock advances of a behaviour.
MaxTicks == 1
\* Number of data chunks of an upstream body.
NChunks == 1
\* The ceiling of the source is 400; the model scales it down so that the
\* table can reach it with the keys below.
CeilingBound == 1
\* Longest request URL, in tokens.
MaxPathLen == 5
\* Number of inbound requests of a behaviour of src/index.ts.
MaxSReqs == 3
\* The LRU of src/index.ts holds 10000 entries; the model scales it down so
\* that an eviction happens with the paths below.
LruBound == 1

\* ---------------------------------------------------------- constants
S3_MISS_TTL == 15 * 60 * 1000
S3_HIT_TTL == 10 * 60 * 60 * 1000
MAX_ENTRIES_IN_CACHE == CeilingBound

\* Chunks a write stream buffers before write() returns false and pipe()
\* pauses the source (the stream's highWaterMark, counted in chunks).
HighWaterMark == 1

\* Date.now() when the process starts (never 0).
Now0 == 1

Reqs == 1..MaxReqs
\* Cache keys: digests of two distinct canonical paths.
Keys == {"k1", "k2"}
\* A request whose url has no pathname.
NoPath == "nopath"
TickSteps == {S3_MISS_TTL, S3_HIT_TTL}

\* Header maps are functions from header names to string values.
NoHeaders == [n \in {} |-> ""]
H1 == [n \in {"content-type"} |-> "sym"]
H2 == [n \in {"content-type", "status"} |-> IF n = "status" THEN "ok" ELSE "sym"]

\* What the upstream store may answer.
UpstreamResponses ==
  { [status |-> 200, headers |-> H1],
    [status |-> 403, headers |-> H2],
    [status |-> 500, headers |-> H1] }
NoUp == [status |-> 0, headers |-> NoHeaders]

\* The workloads explored.  The first: MaxReqs - 1 requests over every path and
\* every upstream answer, with disk faults and a clock that advances.  The
\* second: MaxReqs requests that race for one path whose upstream answer is
\* 200, on a disk without faults.
Workloads ==
  { [reqs |-> MaxReqs - 1, keys |-> Keys \cup {NoPath}, ups |-> UpstreamResponses,
     faults |-> TRUE],
    [reqs |-> MaxReqs, keys |-> {"k1"},
     ups |-> {u \in UpstreamResponses : u.status = 200},
     faults |-> FALSE] }

VARIABLES
  workload,       \* the workload of this behaviour (never changes)
  now,            \* Date.now()
  ticks,          \* clock advances so far
  diskCacheTTLs,  \* key -> expiry timestamp, 0 when the key has no record
  bodyFile,       \* key -> the body artifact at getCachePath(key)
  headersFile,    \* key -> the metadata artifact at getHeadersCachePath(key)
  req,            \* request -> the state of its handling
  PATH_PREFIX,    \* process.env.PATH_PREFIX, as a string of tokens
  pathReq,        \* one request URL and the paths derived from it
  missingSymbolCache, \* src/index.ts: the LRU, most recently used first
  sreq,           \* src/index.ts: request -> the state of its handling
  recorded        \* src/index.ts: path -> status of the upstream response
                  \* recorded last for it, 0 when there is none

diskVars == <<workload, now, ticks, diskCacheTTLs, bodyFile, headersFile, req>>
pathVars == <<PATH_PREFIX, pathReq>>
missVars == <<missingSymbolCache, sreq, recorded>>
vars == <<diskVars, pathVars, missVars>>

\* ------------------------------------------------------- pure helpers
\* if (ttl <= Date.now())
IsExpired_Strict(ttl, t) == ttl < t
IsExpired(ttl, t) == ttl <= t

\* proxyRes.statusCode === 403 ? 404 : proxyRes.statusCode
MapStatus_Identity(s) == s
MapStatus(s) == IF s = 403 THEN 404 ELSE s

\* proxyRes.statusCode === 200 ? S3_HIT_TTL : S3_MISS_TTL
TTLFor_Swapped(s) == IF s = 200 THEN S3_MISS_TTL ELSE S3_HIT_TTL
TTLFor(s) == IF s = 200 THEN S3_HIT_TTL ELSE S3_MISS_TTL

\* if (written === 2)
BarrierReached_One(w) == w = 1
BarrierReached(w) == w = 2

\* Object.keys(diskCacheTTLs).length
CacheSize == Cardinality({k \in Keys : diskCacheTTLs[k] # 0})

\* Object.keys(diskCacheTTLs).length > MAX_ENTRIES_IN_CACHE
CapacityExceeded(n) == n > MAX_ENTRIES_IN_CACHE

\* The decimal text of a status code, as setHeader renders a number.
StatusText(s) ==
  CASE s = 200 -> "200" [] s = 403 -> "403" [] s = 404 -> "404"
    [] s = 500 -> "500" [] OTHER -> "0"

\* { ...proxyRes.headers, status: proxyRes.statusCode }: the status key
\* replaces an upstream header of that name.
MetaJson(headers, statusCode) ==
  [hdr |-> [n \in (DOMAIN headers) \ {"status"} |-> headers[n]],
   status |-> statusCode]

\* for (const headerKey in headers) res.setHeader(headerKey, headers[headerKey])
\* over the parsed record, whose keys include "status".
HeadersFromJson(json) ==
  [n \in (DOMAIN json.hdr) \cup {"status"} |->
     IF n = "status" THEN StatusText(json.status) ELSE json.hdr[n]]

\* The body of response w: chunk i of it sits at offset i.
Body(w) == [i \in 1..NChunks |-> w]

\* A write of response w's chunk at offset pos; a gap before it reads as 0.
WriteAt(data, pos, w) ==
  [i \in 1..(IF pos > Len(data) THEN pos ELSE Len(data)) |->
     IF i = pos THEN w ELSE IF i <= Len(data) THEN data[i] ELSE 0]

NoFile == [exists |-> FALSE, data |-> <<>>]
NoMeta == [state |-> "absent", by |-> 0]

InitReq ==
  [pc |-> "idle", key |-> NoPath, missCalls |-> 0, source |-> "none",
   up |-> NoUp, statusCode |-> 0, caching |-> FALSE, written |-> 0,
   bodyW |-> "none", srcPos |-> 0, diskPos |-> 0, detached |-> FALSE,
   metaW |-> "none", registered |-> FALSE, metaBy |-> 0,
   resStatus |-> 0, resHeaders |-> NoHeaders, resBody |-> <<>>,
   raced |-> FALSE, branch |-> "none", seen |-> 0]

\* ------------------------------------------------- path normalization
\* A path is a string of tokens; a token is a run of characters that the
\* normalization treats as a unit.
PathTokens == {"/", ".", "?", "+", "%20", "%2b", "%2B", "slack", "SLACK", "x"}

\* Request URLs: they start with "/" and have at most MaxPathLen tokens.
RECURSIVE StringsUpTo(_)
StringsUpTo(n) ==
  IF n = 0 THEN {<<>>}
  ELSE LET shorter == StringsUpTo(n - 1)
       IN shorter \cup {Append(s, t) : s \in shorter, t \in PathTokens}

Urls == {<<"/">> \o s : s \in StringsUpTo(MaxPathLen - 1)}

\* Values of PATH_PREFIX: unset, or a directory of the bucket.
Prefixes == {<<>>, <<"/", "x">>}

\* String.prototype.toLowerCase
LowerToken(t) ==
  CASE t = "SLACK" -> "slack" [] t = "%2B" -> "%2b" [] OTHER -> t

ToLowerCase(s) == [i \in 1..Len(s) |-> LowerToken(s[i])]

\* s.replace(/pat/g, rep): the matches are found left to right and do not
\* overlap; the search goes on after the end of a match.
RECURSIVE ReplaceAll(_, _, _)
ReplaceAll(s, pat, rep) ==
  IF Len(s) < Len(pat) THEN s
  ELSE IF SubSeq(s, 1, Len(pat)) = pat
    THEN rep \o ReplaceAll(SubSeq(s, Len(pat) + 1, Len(s)), pat, rep)
    ELSE <<s[1]>> \o ReplaceAll(Tail(s), pat, rep)

APPS_TO_ALIAS == <<"slack">>

\* The three patterns pushed for an application name, in order.
ReplacementsFor(appName) ==
  << <<(<<"/", appName, "/">>), (<<"/", "electron", "/">>)>>,
     <<(<<"/", appName, "%20">>), (<<"/", "electron", "%20">>)>>,
     <<(<<"/", appName, ".">>), (<<"/", "electron", ".">>)>> >>

RECURSIVE Flatten(_)
Flatten(ss) == IF ss = <<>> THEN <<>> ELSE Head(ss) \o Flatten(Tail(ss))

REPLACEMENTS ==
  Flatten([i \in 1..Len(APPS_TO_ALIAS) |-> ReplacementsFor(APPS_TO_ALIAS[i])])

\* for (const replacement of REPLACEMENTS) newPath = newPath.replace(...)
RECURSIVE ApplyReplacements(_, _)
ApplyReplacements(s, rs) ==
  IF rs = <<>> THEN s
  ELSE ApplyReplacements(ReplaceAll(s, Head(rs)[1], Head(rs)[2]), Tail(rs))

PlusFixed(s) == ReplaceAll(ReplaceAll(s, <<"%2b">>, <<"%20">>), <<"+">>, <<"%20">>)

normalizeRequestPath(prefix, currentPath) ==
  prefix \o ApplyReplacements(PlusFixed(ToLowerCase(currentPath)), REPLACEMENTS)

\* The index of the first "?" of a URL, 0 when there is none.
QueryAt(u) ==
  IF \E i \in 1..Len(u) : u[i] = "?"
    THEN CHOOSE i \in 1..Len(u) : u[i] = "?" /\ \A j \in 1..(i - 1) : u[j] # "?"
    ELSE 0

\* url.parse(u).pathname: the URL up to its query string.
Pathname(u) == IF QueryAt(u) = 0 THEN u ELSE SubSeq(u, 1, QueryAt(u) - 1)

\* url.parse(u).path, which the proxy copies to proxyReq.path: pathname and
\* query string.
ProxyPath(u) == u

\* crypto.createHash("sha256").update(s).digest("hex"): distinct strings have
\* distinct digests.
Sha256Hex(s) == <<"sha256", s>>

getCacheKey(prefix, currentPath) == Sha256Hex(normalizeRequestPath(prefix, currentPath))

NoString == <<"none">>
NoPathReq ==
  [phase |-> "none", url |-> NoString, lookupKey |-> NoString,
   upstreamPath |-> NoString, storeKey |-> NoString, again |-> NoString]

\* ------------------------------------- src/index.ts: missing-symbol cache
SReqs == 1..MaxSReqs
CanonPaths == {"p1", "p2"}
CorsHeaders == {"access-control-allow-origin", "access-control-allow-methods"}
InitSReq ==
  [pc |-> "idle", kind |-> "none", path |-> "none", status |-> 0,
   headers |-> {}, source |-> "none", upstream |-> 0]

\* new LRU({ max: 10000 }), scaled to LruBound.
LRU_MAX == LruBound

\* The position of key k in the LRU c, 0 when it has no entry.
LruIndex(c, k) ==
  IF \E i \in 1..Len(c) : c[i].key = k
    THEN CHOOSE i \in 1..Len(c) : c[i].key = k
    ELSE 0

LruWithout(c, k) == SelectSeq(c, LAMBDA e : e.key # k)

\* cache.get(k): undefined (falsy) without an entry.
LruGet(c, k) == IF LruIndex(c, k) = 0 THEN FALSE ELSE c[LruIndex(c, k)].value

\* cache.get(k) makes the entry of k the most recently used.
LruTouch(c, k) ==
  IF LruIndex(c, k) = 0 THEN c ELSE <<c[LruIndex(c, k)]>> \o LruWithout(c, k)

\* cache.set(k, v): the entry becomes the most recently used and the least
\* recently used entries beyond max are dropped.
LruSet(c, k, v) ==
  LET all == <<[key |-> k, value |-> v]>> \o LruWithout(c, k)
  IN SubSeq(all, 1, IF Len(all) > LRU_MAX THEN LRU_MAX ELSE Len(all))

\* The overridden response.writeHead with its else branch left out.
RecordStatus_NoReset(c, path, code) ==
  IF code = 403 THEN LruSet(c, path, TRUE) ELSE c

\* The overridden response.writeHead: what it does to the LRU ...
RecordStatus(c, path, code) ==
  IF code = 403 THEN LruSet(c, path, TRUE) ELSE LruSet(c, path, FALSE)

\* ... and the status code it passes on.
WrittenStatus(code) == IF code = 403 THEN 404 ELSE code

\* Status codes of the upstream.
UpstreamStatuses == {200, 403, 404}

\* The state of the disk cache after construction (the cache directory has
\* been wiped), under workload w.
DiskInit(w) ==
  /\ workload = w
  /\ now = Now0
  /\ ticks = 0
  /\ diskCacheTTLs = [k \in Keys |-> 0]
  /\ bodyFile = [k \in Keys |-> NoFile]
  /\ headersFile = [k \in Keys |-> NoMeta]
  /\ req = [r \in Reqs |-> InitReq]

\* No URL under consideration, no path prefix configured.
PathInit(prefix) ==
  /\ PATH_PREFIX = prefix
  /\ pathReq = NoPathReq

\* new LRU({ max }) and no request yet.
MissInit ==
  /\ missingSymbolCache = <<>>
  /\ sreq = [r \in SReqs |-> InitSReq]
  /\ recorded = [p \in CanonPaths |-> 0]

Init ==
  /\ \E w \in Workloads : DiskInit(w)
  /\ PathInit(<<>>)
  /\ MissInit

\* A write of response r to an artifact of its key is in progress.
BodyWriting(r) == req[r].bodyW \in {"init", "open"}
MetaWriting(r) == req[r].metaW \in {"init", "open"}

\* Some response has an artifact of key k open for writing.
WriteInProgress(k) ==
  \E w \in Reqs :
    req[w].key = k /\ (req[w].bodyW = "open" \/ req[w].metaW = "open")

\* ------------------------------------------------------------ actions
\* The clock advances.
Tick(d) ==
  /\ ticks < MaxTicks
  /\ now' = now + d
  /\ ticks' = ticks + 1
  /\ UNCHANGED <<pathVars, missVars, workload, diskCacheTTLs, bodyFile, headersFile, req>>

\* miss(): proxy.web(req, res, ...)
Miss(rq) == [rq EXCEPT !.pc = "proxying", !.missCalls = @ + 1]

\* The synchronous part of respondWithCacheOrCall; branch records which way
\* the lookup went and seen the expired timestamp it read.
Arrive(r, k) ==
  /\ req[r].pc = "idle"
  /\ r <= workload.reqs
  /\ k \in workload.keys
  /\ \A q \in Reqs : q < r => req[q].pc # "idle"
  /\ k = "k2" => \E q \in Reqs : req[q].key = "k1"
  /\ LET rq == [req[r] EXCEPT !.key = k]
         ttl == diskCacheTTLs[k]
     IN IF k = NoPath \/ ttl = 0
          THEN req' = [req EXCEPT ![r] =
                 [Miss(rq) EXCEPT !.branch = "norecord"]]
          ELSE IF IsExpired(ttl, now)
            THEN req' = [req EXCEPT ![r] =
                   [rq EXCEPT !.pc = "removing", !.branch = "expired",
                              !.seen = ttl]]
            ELSE req' = [req EXCEPT ![r] =
                   [rq EXCEPT !.pc = "exists", !.branch = "fresh"]]
  /\ UNCHANGED <<pathVars, missVars, workload, now, ticks, diskCacheTTLs, bodyFile, headersFile>>

\* fs.remove(cachePath, cb) completes: the body artifact is unlinked, an open
\* write stream keeps its unlinked file, and the callback drops the record.
RemoveDone(r) ==
  /\ req[r].pc = "removing"
  /\ LET k == req[r].key
     IN /\ bodyFile' = [bodyFile EXCEPT ![k] = NoFile]
        /\ diskCacheTTLs' = [diskCacheTTLs EXCEPT ![k] = 0]
        /\ req' = [q \in Reqs |->
             IF q = r THEN [Miss(req[r]) EXCEPT !.seen = 0]
             ELSE IF req[q].key = k /\ req[q].bodyW = "open"
               THEN [req[q] EXCEPT !.detached = TRUE]
               ELSE req[q]]
  /\ UNCHANGED <<pathVars, missVars, workload, now, ticks, headersFile>>

\* fs.exists(cachePath, cb)
ExistsDone_NoReturn(r) ==
  /\ req[r].pc = "exists"
  /\ LET k == req[r].key
     IN IF ~bodyFile[k].exists
          THEN /\ diskCacheTTLs' = [diskCacheTTLs EXCEPT ![k] = 0]
               /\ req' = [req EXCEPT ![r] =
                    [Miss(req[r]) EXCEPT !.pc = "readJson",
                                         !.branch = "nobody"]]
          ELSE /\ req' = [req EXCEPT ![r].pc = "readJson"]
               /\ UNCHANGED diskCacheTTLs
  /\ UNCHANGED <<pathVars, missVars, workload, now, ticks, bodyFile, headersFile>>

ExistsDone(r) ==
  /\ req[r].pc = "exists"
  /\ LET k == req[r].key
     IN IF ~bodyFile[k].exists
          THEN /\ diskCacheTTLs' = [diskCacheTTLs EXCEPT ![k] = 0]
               /\ req' = [req EXCEPT ![r] =
                    [Miss(req[r]) EXCEPT !.branch = "nobody"]]
          ELSE /\ req' = [req EXCEPT ![r].pc = "readJson"]
               /\ UNCHANGED diskCacheTTLs
  /\ UNCHANGED <<pathVars, missVars, workload, now, ticks, bodyFile, headersFile>>

\* fs.readJson's callback with the delete of the record left out of its error
\* branch.
ReadJsonDone_KeepsRecord(r) ==
  /\ req[r].pc = "readJson"
  /\ LET k == req[r].key
         m == headersFile[k]
     IN IF m.state # "complete"
          THEN req' = [req EXCEPT ![r] =
                 [Miss(req[r]) EXCEPT !.branch = "badmeta"]]
          ELSE LET json == MetaJson(req[m.by].up.headers, req[m.by].statusCode)
               IN req' = [req EXCEPT ![r] =
                    [@ EXCEPT !.pc = "streamCache", !.source = "cache",
                              !.metaBy = m.by,
                              !.raced = WriteInProgress(k),
                              !.resHeaders = HeadersFromJson(json),
                              !.resStatus = json.status]]
  /\ UNCHANGED <<pathVars, missVars, workload, now, ticks, diskCacheTTLs, bodyFile, headersFile>>

\* fs.readJson(headersCachePath, cb): an artifact that is absent or being
\* rewritten does not parse.
ReadJsonDone(r) ==
  /\ req[r].pc = "readJson"
  /\ LET k == req[r].key
         m == headersFile[k]
     IN IF m.state # "complete"
          THEN /\ diskCacheTTLs' = [diskCacheTTLs EXCEPT ![k] = 0]
               /\ req' = [req EXCEPT ![r] =
                    [Miss(req[r]) EXCEPT !.branch = "badmeta"]]
          ELSE LET json == MetaJson(req[m.by].up.headers, req[m.by].statusCode)
               IN /\ req' = [req EXCEPT ![r] =
                       [@ EXCEPT !.pc = "streamCache", !.source = "cache",
                                 !.metaBy = m.by,
                                 !.raced = WriteInProgress(k),
                                 !.resHeaders = HeadersFromJson(json),
                                 !.resStatus = json.status]]
                  /\ UNCHANGED diskCacheTTLs
  /\ UNCHANGED <<pathVars, missVars, workload, now, ticks, bodyFile, headersFile>>

\* fs.createReadStream(cachePath).pipe(res): the stream reads what the body
\* artifact holds; when the artifact is gone the stream errors and the
\* response is never ended.
ServeBody(r) ==
  /\ req[r].pc = "streamCache"
  /\ LET k == req[r].key
     IN IF ~bodyFile[k].exists
          THEN req' = [req EXCEPT ![r].pc = "hung"]
          ELSE req' = [req EXCEPT ![r] =
                 [@ EXCEPT !.pc = "done", !.resBody = bodyFile[k].data,
                    !.raced = @ \/ WriteInProgress(k)]]
  /\ UNCHANGED <<pathVars, missVars, workload, now, ticks, diskCacheTTLs, bodyFile, headersFile>>

\* proxy.on("error"): the upstream exchange fails before a response.
ProxyError(r) ==
  /\ req[r].pc = "proxying"
  /\ req' = [req EXCEPT ![r] =
       [@ EXCEPT !.pc = "done", !.source = "proxy", !.resStatus = 500,
                 !.resHeaders = [n \in {"content-type"} |-> "text/plain"]]]
  /\ UNCHANGED <<pathVars, missVars, workload, now, ticks, diskCacheTTLs, bodyFile, headersFile>>

\* proxy.on("proxyRes"): the hook, then the proxy copies the status code and
\* headers of proxyRes to the client response and pipes the body.
ProxyRes(r, u) ==
  /\ req[r].pc = "proxying"
  /\ u \in workload.ups
  /\ LET sc == MapStatus(u.status)
         cache == /\ ~CapacityExceeded(CacheSize)
                  /\ req[r].key # NoPath
     IN req' = [req EXCEPT ![r] =
          [@ EXCEPT !.pc = "streaming", !.source = "proxy", !.up = u,
                    !.statusCode = sc, !.resStatus = sc,
                    !.resHeaders = u.headers,
                    !.caching = cache,
                    !.bodyW = IF cache THEN "init" ELSE "none",
                    !.metaW = IF cache THEN "init" ELSE "none"]]
  /\ UNCHANGED <<pathVars, missVars, workload, now, ticks, diskCacheTTLs, bodyFile, headersFile>>

\* proxyRes.pipe(writeStream): the source is paused while the write stream
\* holds HighWaterMark chunks it has not written yet.
Paused(r) ==
  /\ BodyWriting(r)
  /\ req[r].srcPos - req[r].diskPos >= HighWaterMark

\* A data event of proxyRes: the chunk goes to the client and to the write
\* stream's buffer.
SrcData(r) ==
  /\ req[r].pc = "streaming"
  /\ req[r].srcPos < NChunks
  /\ ~Paused(r)
  /\ req' = [req EXCEPT ![r] =
       [@ EXCEPT !.srcPos = @ + 1, !.resBody = Append(@, r)]]
  /\ UNCHANGED <<pathVars, missVars, workload, now, ticks, diskCacheTTLs, bodyFile, headersFile>>

\* The end event of proxyRes: the client response ends, and so does the
\* write stream.
SrcEnd(r) ==
  /\ req[r].pc = "streaming"
  /\ req[r].srcPos = NChunks
  /\ ~Paused(r)
  /\ req' = [req EXCEPT ![r].pc = "done"]
  /\ UNCHANGED <<pathVars, missVars, workload, now, ticks, diskCacheTTLs, bodyFile, headersFile>>

\* finalize()
Written(r) == req[r].written + 1
Registers(r) == BarrierReached(Written(r))
Finalized(r) ==
  [req[r] EXCEPT !.written = Written(r),
                 !.registered = @ \/ Registers(r)]
TTLsAfterFinalize(r) ==
  IF Registers(r)
    THEN [diskCacheTTLs EXCEPT ![req[r].key] = now + TTLFor(req[r].statusCode)]
    ELSE diskCacheTTLs

\* fs.createWriteStream(cachePath) opens the artifact: created, or truncated.
BodyOpen(r) ==
  /\ req[r].bodyW = "init"
  /\ bodyFile' = [bodyFile EXCEPT ![req[r].key] = [exists |-> TRUE, data |-> <<>>]]
  /\ req' = [req EXCEPT ![r].bodyW = "open"]
  /\ UNCHANGED <<pathVars, missVars, workload, now, ticks, diskCacheTTLs, headersFile>>

\* The write stream writes its next buffered chunk.
BodyWrite(r) ==
  /\ req[r].bodyW = "open"
  /\ req[r].diskPos < req[r].srcPos
  /\ LET k == req[r].key
         pos == req[r].diskPos + 1
     IN /\ bodyFile' = IF req[r].detached THEN bodyFile
                       ELSE [bodyFile EXCEPT ![k].data = WriteAt(@, pos, r)]
        /\ req' = [req EXCEPT ![r].diskPos = pos]
  /\ UNCHANGED <<pathVars, missVars, workload, now, ticks, diskCacheTTLs, headersFile>>

\* writeStream.on("close", finalize) after the stream has ended and flushed.
BodyClose(r) ==
  /\ req[r].bodyW = "open"
  /\ req[r].pc = "done"
  /\ req[r].diskPos = NChunks
  /\ diskCacheTTLs' = TTLsAfterFinalize(r)
  /\ req' = [req EXCEPT ![r] = [Finalized(r) EXCEPT !.bodyW = "closed"]]
  /\ UNCHANGED <<pathVars, missVars, workload, now, ticks, bodyFile, headersFile>>

\* The open or a write of the body artifact fails.  The stream is destroyed
\* and unpiped; whether it then emits close depends on the runtime.
BodyFail(r, emitsClose) ==
  /\ workload.faults
  /\ \/ req[r].bodyW = "init"
     \/ req[r].bodyW = "open" /\ req[r].diskPos < req[r].srcPos
  /\ IF emitsClose
       THEN /\ diskCacheTTLs' = TTLsAfterFinalize(r)
            /\ req' = [req EXCEPT ![r] = [Finalized(r) EXCEPT !.bodyW = "failed"]]
       ELSE /\ req' = [req EXCEPT ![r].bodyW = "failed"]
            /\ UNCHANGED diskCacheTTLs
  /\ UNCHANGED <<pathVars, missVars, workload, now, ticks, bodyFile, headersFile>>

\* fs.writeJSON(headersCachePath, ...) opens the artifact: created, or truncated.
MetaOpen(r) ==
  /\ req[r].metaW = "init"
  /\ headersFile' = [headersFile EXCEPT ![req[r].key] = [state |-> "partial", by |-> r]]
  /\ req' = [req EXCEPT ![r].metaW = "open"]
  /\ UNCHANGED <<pathVars, missVars, workload, now, ticks, diskCacheTTLs, bodyFile>>

\* fs.writeJSON writes the record and calls back without an error.
MetaDone(r) ==
  /\ req[r].metaW = "open"
  /\ headersFile' = [headersFile EXCEPT ![req[r].key] = [state |-> "complete", by |-> r]]
  /\ diskCacheTTLs' = TTLsAfterFinalize(r)
  /\ req' = [req EXCEPT ![r] = [Finalized(r) EXCEPT !.metaW = "done"]]
  /\ UNCHANGED <<pathVars, missVars, workload, now, ticks, bodyFile>>

\* fs.writeJSON calls back with an error.
MetaFail(r) ==
  /\ workload.faults
  /\ MetaWriting(r)
  /\ req' = [req EXCEPT ![r].metaW = "failed"]
  /\ UNCHANGED <<pathVars, missVars, workload, now, ticks, diskCacheTTLs, bodyFile, headersFile>>

Next ==
  \/ \E d \in TickSteps : Tick(d)
  \/ \E r \in Reqs, k \in Keys \cup {NoPath} : Arrive(r, k)
  \/ \E r \in Reqs : RemoveDone(r)
  \/ \E r \in Reqs : ExistsDone(r)
  \/ \E r \in Reqs : ReadJsonDone(r)
  \/ \E r \in Reqs : ServeBody(r)
  \/ \E r \in Reqs : ProxyError(r)
  \/ \E r \in Reqs, u \in UpstreamResponses : ProxyRes(r, u)
  \/ \E r \in Reqs : SrcData(r)
  \/ \E r \in Reqs : SrcEnd(r)
  \/ \E r \in Reqs : BodyOpen(r)
  \/ \E r \in Reqs : BodyWrite(r)
  \/ \E r \in Reqs : BodyClose(r)
  \/ \E r \in Reqs, c \in BOOLEAN : BodyFail(r, c)
  \/ \E r \in Reqs : MetaOpen(r)
  \/ \E r \in Reqs : MetaDone(r)
  \/ \E r \in Reqs : MetaFail(r)

Spec == Init /\ [][Next]_vars

\* --------------------------------------------- the paths of one request
\* One request URL, under each value of PATH_PREFIX.
InitPath ==
  /\ \E w \in Workloads : ~w.faults /\ DiskInit(w)
  /\ PATH_PREFIX \in Prefixes
  /\ pathReq \in {[NoPathReq EXCEPT !.phase = "arrived", !.url = u] : u \in Urls}
  /\ MissInit

\* respondWithCacheOrCall: getCacheKey(url.parse(req.url).pathname)
PathLookup ==
  /\ pathReq.phase = "arrived"
  /\ pathReq' = [pathReq EXCEPT
       !.phase = "looked",
       !.lookupKey = getCacheKey(PATH_PREFIX, Pathname(pathReq.url))]
  /\ UNCHANGED <<diskVars, missVars, PATH_PREFIX>>

\* proxy.on("proxyReq"): proxyReq.path = normalizeRequestPath(proxyReq.path)
PathProxyReq ==
  /\ pathReq.phase = "looked"
  /\ pathReq' = [pathReq EXCEPT
       !.phase = "proxied",
       !.upstreamPath = normalizeRequestPath(PATH_PREFIX, ProxyPath(pathReq.url))]
  /\ UNCHANGED <<diskVars, missVars, PATH_PREFIX>>

\* proxy.on("proxyRes"): getCacheKey(url.parse(req.url).pathname), the key
\* under which finalize registers.
PathProxyRes ==
  /\ pathReq.phase = "proxied"
  /\ pathReq' = [pathReq EXCEPT
       !.phase = "stored",
       !.storeKey = getCacheKey(PATH_PREFIX, Pathname(pathReq.url))]
  /\ UNCHANGED <<diskVars, missVars, PATH_PREFIX>>

\* normalizeRequestPath applied to the canonical path it returned at lookup.
NormalizeAgain ==
  /\ pathReq.phase = "stored"
  /\ pathReq' = [pathReq EXCEPT
       !.phase = "again",
       !.again = normalizeRequestPath(PATH_PREFIX,
                   normalizeRequestPath(PATH_PREFIX, Pathname(pathReq.url)))]
  /\ UNCHANGED <<diskVars, missVars, PATH_PREFIX>>

NextPath ==
  \/ PathLookup
  \/ PathProxyReq
  \/ PathProxyRes
  \/ NormalizeAgain

SpecPath == InitPath /\ [][NextPath]_vars

\* ------------------------------------- src/index.ts: the request handler
InitMiss ==
  /\ \E w \in Workloads : ~w.faults /\ DiskInit(w)
  /\ PathInit(<<>>)
  /\ MissInit

\* The handler of http.createServer, for a request to /health or to a URL
\* whose canonical path is target.
HandleRequest(r, target, redirect) ==
  /\ sreq[r].pc = "idle"
  /\ \A q \in SReqs : q < r => sreq[q].pc # "idle"
  /\ IF target = "/health"
       THEN /\ sreq' = [sreq EXCEPT ![r] =
                 [@ EXCEPT !.pc = "done", !.kind = "health", !.path = target,
                           !.status = 200, !.source = "local"]]
            /\ UNCHANGED missingSymbolCache
       ELSE IF redirect
         THEN /\ sreq' = [sreq EXCEPT ![r] =
                   [@ EXCEPT !.pc = "done", !.kind = "redirect",
                             !.path = target, !.status = 302,
                             !.headers = {"location"}, !.source = "local"]]
              /\ UNCHANGED missingSymbolCache
         ELSE /\ missingSymbolCache' = LruTouch(missingSymbolCache, target)
              /\ IF LruGet(missingSymbolCache, target)
                   THEN sreq' = [sreq EXCEPT ![r] =
                          [@ EXCEPT !.pc = "done", !.kind = "plain",
                                    !.path = target, !.status = 404,
                                    !.source = "cache"]]
                   ELSE sreq' = [sreq EXCEPT ![r] =
                          [@ EXCEPT !.pc = "forwarded", !.kind = "plain",
                                    !.path = target]]
  /\ UNCHANGED <<diskVars, pathVars, recorded>>

\* proxy.on('proxyReq'): the CORS headers are set on the response and
\* writeHead is overridden.
ProxyReqHook(r) ==
  /\ sreq[r].pc = "forwarded"
  /\ sreq' = [sreq EXCEPT ![r] =
       [@ EXCEPT !.pc = "proxying", !.headers = @ \cup CorsHeaders]]
  /\ UNCHANGED <<diskVars, pathVars, missingSymbolCache, recorded>>

\* The upstream answers with status s and the proxy writes the head of the
\* response through the overridden writeHead.
UpstreamResponse(r, s) ==
  /\ sreq[r].pc = "proxying"
  /\ missingSymbolCache' = RecordStatus(missingSymbolCache, sreq[r].path, s)
  /\ recorded' = [recorded EXCEPT ![sreq[r].path] = s]
  /\ sreq' = [sreq EXCEPT ![r] =
       [@ EXCEPT !.pc = "done", !.status = WrittenStatus(s),
                 !.source = "upstream", !.upstream = s]]
  /\ UNCHANGED <<diskVars, pathVars>>

\* proxy.on('error'): res.writeHead(500, ...) goes through the override too.
UpstreamError(r) ==
  /\ sreq[r].pc = "proxying"
  /\ missingSymbolCache' = RecordStatus(missingSymbolCache, sreq[r].path, 500)
  /\ sreq' = [sreq EXCEPT ![r] =
       [@ EXCEPT !.pc = "done", !.status = WrittenStatus(500),
                 !.headers = @ \cup {"content-type"}, !.source = "error"]]
  /\ UNCHANGED <<diskVars, pathVars, recorded>>

NextMiss ==
  \/ \E r \in SReqs, t \in CanonPaths \cup {"/health"}, rd \in BOOLEAN :
       HandleRequest(r, t, rd)
  \/ \E r \in SReqs : ProxyReqHook(r)
  \/ \E r \in SReqs, s \in UpstreamStatuses : UpstreamResponse(r, s)
  \/ \E r \in SReqs : UpstreamError(r)

SpecMiss == InitMiss /\ [][NextMiss]_vars

\* ------------------------------------------------------------- claims
Served(r) == req[r].pc = "done" /\ req[r].source = "cache"

\* C1: a response has registered its expiry record only when both of its
\* writes have called back (the body stream has closed and the metadata write
\* has returned without an error); never while one of the two is pending.
C1_RegisterAfterBothWrites ==
  \A r \in Reqs :
    req[r].registered =>
      /\ ~BodyWriting(r) /\ ~MetaWriting(r)
      /\ req[r].bodyW \in {"closed", "failed"}
      /\ req[r].metaW = "done"
      /\ req[r].written = 2

\* A response registered after its body stream closed and its metadata write
\* returned.
C1_Witness ==
  \E r \in Reqs :
    req[r].registered /\ req[r].bodyW = "closed" /\ req[r].metaW = "done"

\* C2: a response whose body write or metadata write failed never registers
\* an expiry record.
C2_NoExpiryAfterFailedWrite ==
  \A r \in Reqs :
    (req[r].bodyW = "failed" \/ req[r].metaW = "failed") => ~req[r].registered

\* No write of key k has failed.
NoFailedWrite(k) ==
  \A w \in Reqs :
    req[w].key = k => req[w].bodyW # "failed" /\ req[w].metaW # "failed"

\* C3: under any interleaving of requests whose disk writes all succeed, a
\* request served from the cache got a complete body and the metadata written
\* by the same response, and no write to an artifact of the key was in progress
\* when it read them.
C3_ServedEntryConsistent ==
  \A r \in Reqs :
    (Served(r) /\ NoFailedWrite(req[r].key)) =>
      /\ req[r].metaBy \in Reqs
      /\ req[r].resBody = Body(req[r].metaBy)
      /\ ~req[r].raced

\* C4: the expiry a response registers is the registration time plus
\* S3_HIT_TTL when its status is 200, and plus S3_MISS_TTL otherwise.
C4_ExpiryByStatus ==
  [][\A r \in Reqs :
       (~req[r].registered /\ req'[r].registered) =>
         diskCacheTTLs'[req[r].key] =
           now + (IF req[r].statusCode = 200 THEN S3_HIT_TTL ELSE S3_MISS_TTL)]_vars

\* Two entries registered at the present clock reading, one from a 200 with
\* the long expiry, one from another status with the short expiry.
C4_Witness ==
  \E r, q \in Reqs :
    /\ req[r].registered /\ req[r].statusCode = 200
    /\ diskCacheTTLs[req[r].key] = now + S3_HIT_TTL
    /\ req[q].registered /\ req[q].statusCode # 200
    /\ diskCacheTTLs[req[q].key] = now + S3_MISS_TTL

\* The status a complete metadata artifact of key k holds.
StoredStatus(k) ==
  MetaJson(req[headersFile[k].by].up.headers,
           req[headersFile[k].by].statusCode).status

C5_StatusInv ==
  /\ \A r \in Reqs : req[r].resStatus # 403
  /\ \A r \in Reqs :
       req[r].up.status = 403 =>
         /\ req[r].resStatus = 404
         /\ req[r].statusCode = 404
  /\ \A k \in Keys :
       (headersFile[k].state = "complete" /\ req[headersFile[k].by].up.status = 403)
         => StoredStatus(k) = 404
  /\ \A r \in Reqs :
       (req[r].source = "cache" /\ req[req[r].metaBy].up.status = 403)
         => req[r].resStatus = 404

C5_ExpiryStep ==
  \A r \in Reqs :
    (req[r].up.status = 403 /\ ~req[r].registered /\ req'[r].registered) =>
      diskCacheTTLs'[req[r].key] = now + S3_MISS_TTL

\* C5: an upstream 403 reaches the client as 404, is stored as 404 and is
\* registered with the short expiry; no client ever gets a 403.
C5_403BecomesNotFound == []C5_StatusInv /\ [][C5_ExpiryStep]_vars

\* An upstream 403 was answered 404, cached with the short expiry, and then
\* served from the cache as 404.
C5_Witness ==
  \E r, q \in Reqs :
    /\ req[r].up.status = 403 /\ req[r].resStatus = 404 /\ req[r].registered
    /\ Served(q) /\ req[q].metaBy = r /\ req[q].resStatus = 404

\* Response w is the only one that ever wrote the artifacts of its key, and
\* both of its writes succeeded.
SoleFinalize(w) ==
  /\ req[w].registered /\ req[w].bodyW = "closed" /\ req[w].metaW = "done"
  /\ \A q \in Reqs \ {w} : req[q].key = req[w].key => ~req[q].caching

\* C6: after the only finalize of a key, of a 200 with headers H and body B, a
\* request served from the cache gets status 200, exactly the headers H and
\* the body B.
C6_RoundTrip ==
  \A r, w \in Reqs :
    (/\ Served(r) /\ req[r].metaBy = w /\ req[r].key = req[w].key
     /\ SoleFinalize(w) /\ req[w].up.status = 200)
    => /\ req[r].resStatus = 200
       /\ req[r].resHeaders = req[w].up.headers
       /\ req[r].resBody = Body(w)

CachePath == {"exists", "readJson", "streamCache", "hung"}

C7_LookupStep ==
  \A r \in Reqs :
    /\ (req[r].pc = "idle" /\ req'[r].pc # "idle") =>
         LET k == req'[r].key
             ttl == IF k \in Keys THEN diskCacheTTLs[k] ELSE 0
         IN IF ttl # 0 /\ now < ttl
              THEN req'[r].pc = "exists"
              ELSE req'[r].pc \in {"removing", "proxying"}
    /\ (req'[r].pc \in CachePath /\ req[r].pc \notin CachePath) =>
         req[r].pc = "idle"
    /\ (req'[r].source = "cache" /\ req[r].source # "cache") =>
         req[r].pc = "readJson"
    /\ req[r].pc = "removing" => req'[r].pc \in {"removing", "proxying"}

\* C7: a lookup at now >= expiresAt, or without a record, goes to the miss
\* path whatever is on disk; only a lookup that finds a record with
\* now < expiresAt enters the path that serves from the cache.
C7_ExpiredNeverServed == [][C7_LookupStep]_vars

\* A lookup found the record expired at exactly now = expiresAt while both
\* artifacts were still on disk, and took the miss path.
C7_Witness ==
  \E r \in Reqs :
    /\ req[r].pc = "removing"
    /\ diskCacheTTLs[req[r].key] = now
    /\ bodyFile[req[r].key].exists
    /\ headersFile[req[r].key].state = "complete"

\* Every record of the table was registered after two successful writes.
CleanTable == \A w \in Reqs : req[w].registered => req[w].bodyW = "closed"

\* C8: a response whose hook runs when the table already holds
\* MAX_ENTRIES_IN_CACHE records, for a key that has no record, starts no cache
\* write (and so registers nothing).
C8_NoAdmissionAtCeiling ==
  [][\A r \in Reqs :
       (/\ req[r].pc = "proxying" /\ req'[r].pc = "streaming"
        /\ CleanTable
        /\ req[r].key \in Keys
        /\ diskCacheTTLs[req[r].key] = 0
        /\ CacheSize >= MAX_ENTRIES_IN_CACHE)
       => ~req'[r].caching]_vars

\* C9: a request is answered from one source: the cache, with miss() never
\* called, or the upstream, with miss() called once and nothing of the cache
\* in the answer.
C9_ExactlyOneSource ==
  \A r \in Reqs :
    /\ req[r].missCalls <= 1
    /\ req[r].source = "cache" =>
         /\ req[r].missCalls = 0
         /\ req[r].up = NoUp
         /\ req[r].pc \in {"streamCache", "done", "hung"}
    /\ req[r].source = "proxy" =>
         /\ req[r].missCalls = 1
         /\ req[r].metaBy = 0
         /\ \A i \in 1..Len(req[r].resBody) : req[r].resBody[i] = r
    /\ req[r].pc \in {"proxying", "streaming"} => req[r].missCalls = 1
    /\ req[r].pc \in CachePath => req[r].missCalls = 0
    /\ req[r].pc = "done" => req[r].source \in {"cache", "proxy"}

\* One request was answered by the upstream and a later one from the cache.
C9_Witness ==
  \E r, q \in Reqs :
    /\ req[r].pc = "done" /\ req[r].source = "proxy" /\ req[r].missCalls = 1
    /\ Served(q) /\ req[q].missCalls = 0 /\ req[q].metaBy = r

\* C10: while the upstream response of a request is being streamed, the next
\* step of the client response (a data chunk, or the end) can always be taken,
\* whatever the state of the cache writes.
C10_ClientIndependentOfCacheWrite ==
  \A r \in Reqs :
    req[r].pc = "streaming" => ENABLED (SrcData(r) \/ SrcEnd(r))

\* The lookup of request r was abandoned as a miss: miss() was called once,
\* nothing was sent to the client, and the key has no expiry record.
MissedAndDropped(r) ==
  /\ req'[r].pc = "proxying"
  /\ req'[r].missCalls = 1
  /\ req'[r].source = "none"
  /\ req'[r].resStatus = 0
  /\ diskCacheTTLs'[req[r].key] = 0

C12_LookupStep ==
  \A r \in Reqs :
    LET k == req[r].key
    IN /\ (req[r].pc = "exists" /\ ~bodyFile[k].exists /\ req'[r] # req[r])
            => MissedAndDropped(r)
       /\ (/\ req[r].pc = "readJson"
           /\ headersFile[k].state # "complete"
           /\ req'[r] # req[r])
            => MissedAndDropped(r)

C12_Inv ==
  \A r \in Reqs :
    req[r].branch \in {"nobody", "badmeta"} =>
      /\ req[r].missCalls = 1
      /\ req[r].source # "cache"
      /\ req[r].metaBy = 0

\* C12: a lookup that found an unexpired record but then finds the body
\* artifact missing, or the metadata artifact unreadable, calls miss() (once,
\* with nothing sent to the client from the cache) and removes the key's expiry
\* record in the same step.
C12_DamagedEntryIsMiss == []C12_Inv /\ [][C12_LookupStep]_vars

\* A lookup found its record unexpired and the body artifact missing, dropped
\* the record and went to the upstream.
C12_Witness ==
  \E r \in Reqs :
    /\ req[r].branch = "nobody"
    /\ req[r].pc = "proxying"
    /\ diskCacheTTLs[req[r].key] = 0

\* C13: every key that has an expiry record has both of its artifacts on
\* disk (the body file exists and the metadata file is there), in every state
\* reached without a failed write; the table starts empty.
C13_TableMatchesDisk ==
  \A k \in Keys :
    (diskCacheTTLs[k] # 0 /\ NoFailedWrite(k)) =>
      /\ bodyFile[k].exists
      /\ headersFile[k].state # "absent"

\* Some response is still writing, or yet to write, an artifact of key k.
FinalizePending(k) ==
  \E w \in Reqs :
    /\ req[w].key = k
    /\ req[w].caching
    /\ (BodyWriting(w) \/ MetaWriting(w))

C16_CleanupStep ==
  \A r \in Reqs :
    LET k == req[r].key
    IN (/\ req[r].pc = "removing"
        /\ req'[r].pc = "proxying"
        /\ ~FinalizePending(k)
        /\ NoFailedWrite(k))
         => /\ diskCacheTTLs'[k] = 0
            /\ ~bodyFile'[k].exists
            /\ headersFile'[k].state = "absent"

\* C16: when the cleanup started by a lookup that saw an expired record
\* completes, no response is writing the key's artifacts and no write of the
\* key has failed, the key has no
\* expiry record and neither its body artifact nor its metadata artifact
\* remains on disk.
C16_CleanupRemovesEntry == [][C16_CleanupStep]_vars

\* C17: under any interleaving of responses whose records were all registered
\* after a successful body write, the expiry table never holds more than
\* MAX_ENTRIES_IN_CACHE records.
C17_TableWithinCeiling == CleanTable => CacheSize <= MAX_ENTRIES_IN_CACHE

C18_CleanupStep ==
  \A r \in Reqs :
    LET k == req[r].key
    IN (req[r].pc = "removing" /\ req'[r].pc = "proxying")
         => diskCacheTTLs[k] \in {0, req[r].seen}

\* C18: the cleanup started by a lookup that saw an expired record removes only
\* that record: when its callback runs, the key's record is still the expired
\* one the lookup read (or is already gone), never one registered since.
C18_CleanupSparesNewerEntry == [][C18_CleanupStep]_vars

\* Some callback of request r is due: a disk operation or the upstream
\* exchange it started has yet to call back, or its stream can move on.
CallbackDue(r) ==
  \/ RemoveDone(r) \/ ExistsDone(r) \/ ReadJsonDone(r) \/ ServeBody(r)
  \/ ProxyError(r) \/ (\E u \in UpstreamResponses : ProxyRes(r, u))
  \/ SrcData(r) \/ SrcEnd(r)
  \/ BodyOpen(r) \/ BodyWrite(r) \/ BodyClose(r)

\* C19: a request that has arrived and is not yet answered always has a
\* callback due, so that it is answered once the operations in flight call
\* back; no request is left with nothing to wait for.
C19_EveryRequestAnswered ==
  \A r \in Reqs :
    req[r].pc \notin {"idle", "done"} => ENABLED CallbackDue(r)

\* C11: once the request has been forwarded, the canonical path whose digest
\* is its cache key, at lookup and at finalize, is the normalized path that was
\* sent to the upstream.
C11_KeyPathIsUpstreamPath ==
  /\ pathReq.phase \in {"proxied", "stored", "again"} =>
       pathReq.lookupKey = Sha256Hex(pathReq.upstreamPath)
  /\ pathReq.phase \in {"stored", "again"} =>
       pathReq.storeKey = Sha256Hex(pathReq.upstreamPath)

\* The path has none of the artifacts "+" and "%2b", in either case.
PlusFree(s) == \A i \in 1..Len(s) : s[i] \notin {"+", "%2b", "%2B"}

\* C15: for a path without "+" and "%2b", the normalization applied twice
\* gives the canonical path that it gives applied once, under every path
\* prefix.
C15_NormalizationIdempotent ==
  (pathReq.phase = "again" /\ PlusFree(Pathname(pathReq.url))) =>
    pathReq.again = normalizeRequestPath(PATH_PREFIX, Pathname(pathReq.url))

\* C14: every response served from the cache or from a live upstream fetch
\* carries Access-Control-Allow-Origin and Access-Control-Allow-Methods.
C14_CorsOnEveryResponse ==
  \A r \in SReqs :
    (sreq[r].pc = "done" /\ sreq[r].source \in {"cache", "upstream"}) =>
      CorsHeaders \subseteq sreq[r].headers

C20_Inv ==
  \A r \in SReqs :
    /\ sreq[r].source = "cache" =>
         /\ sreq[r].kind = "plain" /\ sreq[r].status = 404
         /\ sreq[r].upstream = 0
    /\ (sreq[r].pc = "done" /\ sreq[r].status = 404 /\ sreq[r].upstream = 0) =>
         sreq[r].source = "cache"

C20_Step ==
  \A r \in SReqs :
    (sreq[r].pc = "idle" /\ sreq'[r].pc # "idle" /\ sreq'[r].kind = "plain") =>
      LET p == sreq'[r].path
      IN /\ sreq'[r].source = "cache" => recorded[p] = 403
         /\ recorded[p] # 403 => sreq'[r].pc = "forwarded"

\* C20: a non-redirect request is answered 404 without a call to the upstream
\* only when the upstream response recorded last for its canonical path had
\* status 403; when the response recorded last had another status (or there
\* is none), the request is forwarded.
C20_NotFoundOnlyAfter403 == []C20_Inv /\ [][C20_Step]_vars

\* A request was answered 404 from the LRU after the upstream answered 403 for
\* the same path.
C20_Witness ==
  \E r, q \in SReqs :
    /\ sreq[r].pc = "done" /\ sreq[r].source = "cache" /\ sreq[r].status = 404
    /\ sreq[q].upstream = 403 /\ sreq[q].path = sreq[r].path
    /\ recorded[sreq[r].path] = 403

====
